---- MODULE Spec2Model ----
(***************************************************************************)
(* Analysis pipeline of arrs-tool: AnalysisOrchestrator.analyze_url and    *)
(* the repository writes it performs, one action per await point.          *)
(* Scores and the composite are integers in hundredths where noted;        *)
(* engine weights are in hundredths (0.30 -> 30).                          *)
(***************************************************************************)
EXTENDS Integers, Sequences, FiniteSets, TLC

\* ------------------------------------------------------------------ bounds
NumScoreValues == 2
MaxScores == 3
MaxStoredGaps == 3
NumFleschValues == 4
MaxSignals == 2
MaxEngineGaps == 1
MaxReportGaps == 11

\* --------------------------------------------------------------- constants
weight_ade == 30
weight_arce == 20
weight_tre == 20

NullScore == -1

Null == <<>>

AnalysisId == "a1"

Url == "u1"

EngineOrder == <<"ADE", "ARCE", "TRE">>

EngineNames == {"ADE", "ARCE", "TRE"}

Providers == {"none", "openai", "claude", "ollama"}

ScoreGrid == <<100, 40, 0, 73, 55>>

ScoreValues == {ScoreGrid[i] : i \in 1..(IF NumScoreValues < 5 THEN NumScoreValues ELSE 5)}

SignalList == <<"warranty", "shipping", "reviews", "price">>

SignalChoices == {SubSeq(SignalList, 1, n) : n \in 0..(IF MaxSignals < 4 THEN MaxSignals ELSE 4)}

VARIABLES
    pc,                 \* position of analyze_url
    simulator,          \* provider behind self.simulator ("none" when None)
    brand, product_category, use_case,   \* caller arguments are truthy
    analysis,           \* row of table analyses for AnalysisId
    crawled_pages,      \* rows of table crawled_pages
    engine_scores_tbl,  \* rows of table engine_scores
    simulation_results_tbl, \* rows of table simulation_results
    gaps_tbl,           \* rows of table gaps
    crawled_content,    \* local crawled_content
    engine_scores,      \* local engine_scores
    composite_score,    \* local composite_score
    all_gaps,           \* local all_gaps
    simulation_result,  \* local simulation_result
    exc,                \* message of the exception in flight
    idx,                \* loop position of the for loops
    failures,           \* history: failures that happened in the run
    attempts,           \* history: number of crawl attempts per strategy
    outcome,            \* history: result of each engine's analyze
    stages,             \* history: stages entered after acquisition
    identified,         \* history: gaps returned by the identify_gaps calls
    gap_calls,          \* history: engines whose identify_gaps was called
    parsed_data,        \* local parsed_data
    fn_in,              \* argument of the function under study
    fn_out,             \* its result
    fn_done,            \* whether it has been applied
    runs,               \* two concurrent analyze_url calls: their locals
    db                  \* the tables they share

vars == <<pc, simulator, brand, product_category, use_case, analysis,
          crawled_pages, engine_scores_tbl, simulation_results_tbl, gaps_tbl,
          crawled_content, engine_scores, composite_score, all_gaps,
          simulation_result, exc, idx, failures, attempts, outcome, stages,
          identified, gap_calls, parsed_data, fn_in, fn_out, fn_done, runs, db>>

\* ----------------------------------------------------------- pure helpers
RECURSIVE SumWeight(_)
SumWeight(scores) ==
    IF scores = <<>> THEN 0
    ELSE Head(scores).weight + SumWeight(Tail(scores))

RECURSIVE SumWeighted(_)
SumWeighted(scores) ==
    IF scores = <<>> THEN 0
    ELSE Head(scores).score * Head(scores).weight + SumWeighted(Tail(scores))

\* round(n/d, 2) in hundredths, ties to even (Python round)
Round2(n, d) ==
    LET q == (100 * n) \div d
        r == (100 * n) % d
    IN  IF 2 * r < d THEN q
        ELSE IF 2 * r > d THEN q + 1
        ELSE IF q % 2 = 0 THEN q ELSE q + 1

CompositeNoneOnZeroWeight(scores) ==
    LET total_weight == SumWeight(scores)
    IN  IF total_weight = 0 THEN NullScore
        ELSE Round2(SumWeighted(scores), total_weight)

CompositeOverConfiguredWeight(scores) ==
    LET total_weight == SumWeight(scores)
    IN  IF total_weight = 0 THEN 0
        ELSE Round2(SumWeighted(scores), weight_ade + weight_arce + weight_tre)

CompositeUnweightedOnZeroWeight(scores) ==
    LET total_weight == SumWeight(scores)
    IN  IF total_weight = 0
        THEN (IF scores = <<>> THEN 0
              ELSE Round2(SumWeighted([i \in DOMAIN scores |->
                                          [score |-> scores[i].score, weight |-> 1]]),
                          Len(scores)))
        ELSE Round2(SumWeighted(scores), total_weight)

_calculate_composite_score(scores) ==
    LET total_weight == SumWeight(scores)
    IN  IF total_weight = 0 THEN 0
        ELSE Round2(SumWeighted(scores), total_weight)

EngineWeight(e) ==
    CASE e = "ADE" -> weight_ade
      [] e = "ARCE" -> weight_arce
      [] e = "TRE" -> weight_tre

CreateScoreUnitWeight(e, s) ==
    [analysis_id |-> AnalysisId, engine_name |-> e, score |-> s, weight |-> 100]

create_score(e, s) ==
    [analysis_id |-> AnalysisId, engine_name |-> e, score |-> s, weight |-> EngineWeight(e)]

create_gap(e, gap_type, severity) ==
    [analysis_id |-> AnalysisId, gap_type |-> gap_type, severity |-> severity,
     signal |-> "", engine_source |-> e]


\* gaps each engine's identify_gaps can report, in the order it appends them
EngineGapList(e) ==
    CASE e = "ADE" -> <<create_gap("ADE", "missing_field_offers", "high"),
                        create_gap("ADE", "short_description", "medium"),
                        create_gap("ADE", "no_images", "high")>>
      [] e = "ARCE" -> <<create_gap("ARCE", "missing_h1", "high"),
                         create_gap("ARCE", "poor_readability", "medium"),
                         create_gap("ARCE", "missing_meta_description", "medium")>>
      [] e = "TRE" -> <<create_gap("TRE", "no_buy_button", "critical"),
                        create_gap("TRE", "no_reviews", "medium"),
                        create_gap("TRE", "no_ssl", "critical")>>

EngineGapChoices(e) ==
    {SubSeq(EngineGapList(e), 1, n) : n \in 0..(IF MaxEngineGaps < 3 THEN MaxEngineGaps ELSE 3)}

\* _parse_content: schema_data["product"] is find_product_schema(), a dict
\* or None; product_validation["present"] is true exactly for a dict
ParsedData(product_present) ==
    [product_present |-> product_present]

NoParsedData == ParsedData(FALSE)

\* ADEEngine.identify_gaps reports missing_schema first, when the
\* validation says no Product schema is present
SchemaGaps(e, parsed) ==
    IF e = "ADE" /\ ~parsed.product_present
    THEN <<create_gap("ADE", "missing_schema", "critical")>>
    ELSE <<>>

\* ADEEngine.analyze calls .get on schema_data["product"], which raises on None
ADEAnalyzeOk(parsed, ok) ==
    ok /\ parsed.product_present

NotRun == [state |-> "not_run", score |-> 0]

Raised == [state |-> "raised", score |-> 0]

Scored(s) == [state |-> "ok", score |-> s]

AnalyzeResultZeroOnFailure(scores, e, ok, s) ==
    IF ok THEN Append(scores, create_score(e, s)) ELSE Append(scores, create_score(e, 0))

\* _run_engines loop body: a score is appended, a raising engine is skipped
AnalyzeResult(scores, e, ok, s) ==
    IF ok THEN Append(scores, create_score(e, s)) ELSE scores

RECURSIVE SignalGaps(_)
SignalGaps(signals) ==
    IF signals = <<>> THEN <<>>
    ELSE <<[analysis_id |-> AnalysisId, gap_type |-> "missing_attribute",
            severity |-> "medium", signal |-> Head(signals),
            engine_source |-> "AI_SIMULATION"]>> \o SignalGaps(Tail(signals))

ExtractSimulationGapsCitationLast(result) ==
    SignalGaps(result.missing_signals)
    \o (IF ~result.brand_cited
          THEN <<[analysis_id |-> AnalysisId, gap_type |-> "not_cited_by_ai",
                  severity |-> "critical", signal |-> "",
                  engine_source |-> "AI_SIMULATION"]>>
          ELSE <<>>)

_extract_simulation_gaps(result) ==
    (IF ~result.brand_cited
       THEN <<[analysis_id |-> AnalysisId, gap_type |-> "not_cited_by_ai",
               severity |-> "critical", signal |-> "",
               engine_source |-> "AI_SIMULATION"]>>
       ELSE <<>>)
    \o SignalGaps(result.missing_signals)

ExtendSimulationGapsPartial(gaps, result, ok) ==
    IF ok THEN gaps \o _extract_simulation_gaps(result)
    ELSE gaps \o SubSeq(_extract_simulation_gaps(result), 1, 1)

\* all_gaps after the simulation block: extended only when nothing raised
ExtendSimulationGaps(gaps, result, ok) ==
    IF ok THEN gaps \o _extract_simulation_gaps(result) ELSE gaps

NoResult ==
    [kind |-> "none", brand_cited |-> FALSE, missing_signals |-> <<>>, skipped |-> FALSE]

\* OllamaSimulator._create_fallback_result
FallbackResult ==
    [kind |-> "SimulationResult", brand_cited |-> FALSE, missing_signals |-> <<>>,
     skipped |-> TRUE]

\* OpenAISimulator.simulate_recommendation returns a plain dict; with a
\* repository attached its own keyword-argument save raises and the except
\* branch returns the error dict
OpenAIDict ==
    [kind |-> "dict", brand_cited |-> FALSE, missing_signals |-> <<>>, skipped |-> FALSE]

SimResult(cited, signals) ==
    [kind |-> "SimulationResult", brand_cited |-> cited, missing_signals |-> signals,
     skipped |-> FALSE]

SimEnabledIgnoresUseCase ==
    simulator # "none" /\ brand /\ product_category

\* condition of the simulation block
SimEnabled ==
    simulator # "none" /\ brand /\ product_category /\ use_case

\* ------------------------------------------------------------- repository
NewAnalysisProcessing ==
    [status |-> "processing", composite_score |-> NullScore, error_message |-> Null]

NewAnalysis ==
    [status |-> "pending", composite_score |-> NullScore, error_message |-> Null]

NoAnalysis ==
    [status |-> "absent", composite_score |-> NullScore, error_message |-> Null]

update_analysis_status(row, status, error_message) ==
    [row EXCEPT !.status = status, !.error_message = error_message]

update_composite_score(row, score) ==
    [row EXCEPT !.composite_score = score]

save_gaps(tbl, gaps) ==
    tbl \o gaps

\* CrawledContent built by BeautifulSoupCrawler.crawl
BeautifulSoupContent ==
    [analysis_id |-> AnalysisId, crawl_method |-> "beautifulsoup"]

PlaywrightContentWrongTag ==
    [analysis_id |-> AnalysisId, crawl_method |-> "beautifulsoup"]

\* CrawledContent built by PlaywrightCrawler.crawl
PlaywrightContent ==
    [analysis_id |-> AnalysisId, crawl_method |-> "playwright"]

NoContent == [analysis_id |-> "", crawl_method |-> ""]

\* message of the CrawlerException raised when both crawlers failed
CrawlerExceptionMsg(url, playwright_error) ==
    <<"Failed to crawl ", url, ": ">> \o playwright_error

StorageError(op) == <<"storage error in ", op>>

OnWriteErrorSwallowGaps(op) ==
    IF op = "save_simulation_result" THEN "save_gaps"
    ELSE IF op = "save_gaps" THEN "set_completed" ELSE "handler"

\* where control goes when a repository write raises
OnWriteError(op) ==
    IF op = "save_simulation_result" THEN "save_gaps" ELSE "handler"

\* except branch of the simulation block: log and continue
SimulationExceptSkipsSaveGaps == "set_completed"

SimulationExceptPc == "save_gaps"

\* after the gap loop
AfterEngineGaps == IF SimEnabled THEN "run_simulation" ELSE "save_gaps"

Log(s) ==
    IF stages # <<>> /\ stages[Len(stages)] = s THEN stages ELSE Append(stages, s)


\* ------------------------------------------------------------------- Init
Init ==
    /\ pc = "create"
    /\ simulator \in Providers
    /\ brand \in BOOLEAN
    /\ product_category \in BOOLEAN
    /\ use_case \in BOOLEAN
    /\ analysis = NoAnalysis
    /\ crawled_pages = <<>>
    /\ engine_scores_tbl = <<>>
    /\ simulation_results_tbl = <<>>
    /\ gaps_tbl = <<>>
    /\ crawled_content = NoContent
    /\ engine_scores = <<>>
    /\ composite_score = NullScore
    /\ all_gaps = <<>>
    /\ simulation_result = NoResult
    /\ exc = Null
    /\ idx = 1
    /\ failures = {}
    /\ attempts = [primary |-> 0, fallback |-> 0]
    /\ outcome = [e \in EngineNames |-> NotRun]
    /\ stages = <<>>
    /\ identified = <<>>
    /\ gap_calls = <<>>
    /\ parsed_data = NoParsedData
    /\ fn_in = <<>>
    /\ fn_out = <<>>
    /\ fn_done = FALSE
    /\ runs = <<>>
    /\ db = <<>>

\* state of the harnesses for single functions and for two runs
aux == <<fn_in, fn_out, fn_done, runs, db>>

args == <<simulator, brand, product_category, use_case>>

tables == <<crawled_pages, engine_scores_tbl, simulation_results_tbl, gaps_tbl>>

locals == <<crawled_content, engine_scores, composite_score, all_gaps, simulation_result>>

FailReturnsId(tag, msg) ==
    /\ pc' = "returned"
    /\ exc' = msg
    /\ failures' = failures \cup {tag}

\* raise into the except branch of analyze_url
Fail(tag, msg) ==
    /\ pc' = "handler"
    /\ exc' = msg
    /\ failures' = failures \cup {tag}

\* ---------------------------------------------------------------- actions
\* 1. repository.create_analysis, outside the try block
CreateAnalysis ==
    /\ pc = "create"
    /\ \E ok \in BOOLEAN :
        IF ok
        THEN /\ analysis' = NewAnalysis
             /\ pc' = "set_processing"
             /\ UNCHANGED <<exc, failures>>
        ELSE /\ pc' = "raised"
             /\ exc' = StorageError("create_analysis")
             /\ failures' = failures \cup {"create"}
             /\ UNCHANGED analysis
    /\ UNCHANGED <<aux, parsed_data, identified, gap_calls, args, tables, locals, idx, attempts, outcome, stages>>

\* 2. update_analysis_status(PROCESSING)
SetProcessing ==
    /\ pc = "set_processing"
    /\ \E ok \in BOOLEAN :
        IF ok
        THEN /\ analysis' = update_analysis_status(analysis, "processing", Null)
             /\ pc' = "crawl_primary"
             /\ UNCHANGED <<exc, failures>>
        ELSE /\ Fail("w_processing", StorageError("update_analysis_status"))
             /\ UNCHANGED analysis
    /\ UNCHANGED <<aux, parsed_data, identified, gap_calls, args, tables, locals, idx, attempts, outcome, stages>>

\* 3a. _crawl_url: BeautifulSoupCrawler.crawl
CrawlPrimary ==
    /\ pc = "crawl_primary"
    /\ attempts' = [attempts EXCEPT !.primary = @ + 1]
    /\ \E ok \in BOOLEAN :
        IF ok
        THEN /\ crawled_content' = BeautifulSoupContent
             /\ pc' = "save_crawled"
             /\ UNCHANGED failures
        ELSE /\ pc' = "crawl_fallback"
             /\ failures' = failures \cup {"fetch_primary"}
             /\ UNCHANGED crawled_content
    /\ UNCHANGED <<aux, parsed_data, identified, gap_calls, args, tables, analysis, engine_scores, composite_score, all_gaps,
                   simulation_result, exc, idx, outcome, stages>>

\* 3b. _crawl_url: PlaywrightCrawler.crawl in the except branch
CrawlFallback ==
    /\ pc = "crawl_fallback"
    /\ attempts' = [attempts EXCEPT !.fallback = @ + 1]
    /\ \E ok \in BOOLEAN :
        IF ok
        THEN /\ crawled_content' = PlaywrightContent
             /\ pc' = "save_crawled"
             /\ UNCHANGED <<exc, failures>>
        ELSE /\ Fail("fetch_fallback", CrawlerExceptionMsg(Url, <<"E_playwright">>))
             /\ UNCHANGED crawled_content
    /\ UNCHANGED <<aux, parsed_data, identified, gap_calls, args, tables, analysis, engine_scores, composite_score, all_gaps,
                   simulation_result, idx, outcome, stages>>

\* 3c. repository.save_crawled_content: the row insert, then the JSON file
SaveCrawledContent ==
    /\ pc = "save_crawled"
    /\ stages' = Log("save_crawled")
    /\ \E o \in {"ok", "db_fail", "json_fail"} :
        /\ crawled_pages' = IF o = "db_fail" THEN crawled_pages
                            ELSE Append(crawled_pages, crawled_content)
        /\ IF o = "ok"
           THEN /\ pc' = "parse"
                /\ UNCHANGED <<exc, failures>>
           ELSE Fail("w_crawled", StorageError("save_crawled_content"))
    /\ UNCHANGED <<aux, parsed_data, identified, gap_calls, args, analysis, engine_scores_tbl, simulation_results_tbl, gaps_tbl,
                   locals, idx, attempts, outcome>>

\* 4. _parse_content
ParseContent ==
    /\ pc = "parse"
    /\ stages' = Log("parse")
    /\ \E ok \in BOOLEAN :
        IF ok
        THEN /\ \E product_present \in BOOLEAN :
                    parsed_data' = ParsedData(product_present)
             /\ pc' = "run_engines"
             /\ UNCHANGED <<exc, failures>>
        ELSE /\ Fail("parse", <<"E_parse">>)
             /\ UNCHANGED parsed_data
    /\ idx' = 1
    /\ UNCHANGED <<aux, identified, gap_calls, args, analysis, tables, locals, attempts, outcome>>

\* 5. _run_engines: one engine's analyze per step, in dict order
RunEngine ==
    /\ pc = "run_engines"
    /\ stages' = Log("run_engines")
    /\ \E returns \in BOOLEAN, s \in ScoreValues :
        LET e == EngineOrder[idx]
            ok == IF e = "ADE" THEN ADEAnalyzeOk(parsed_data, returns) ELSE returns
            scores == AnalyzeResult(engine_scores, e, ok, s)
        IN  /\ engine_scores' = scores
            /\ outcome' = [outcome EXCEPT ![e] = IF ok THEN Scored(s) ELSE Raised]
            /\ failures' = IF ok THEN failures ELSE failures \cup {"analyze"}
            /\ IF idx < Len(EngineOrder)
               THEN /\ idx' = idx + 1
                    /\ pc' = "run_engines"
               ELSE /\ idx' = 1
                    /\ pc' = IF scores = <<>> THEN "composite" ELSE "save_scores"
    /\ UNCHANGED <<aux, parsed_data, identified, gap_calls, args, analysis, tables, crawled_content, composite_score, all_gaps,
                   simulation_result, exc, attempts>>

\* save_engine_score for each score of the run
SaveEngineScore ==
    /\ pc = "save_scores"
    /\ stages' = Log("save_scores")
    /\ \E ok \in BOOLEAN :
        IF ok
        THEN /\ engine_scores_tbl' = Append(engine_scores_tbl, engine_scores[idx])
             /\ IF idx < Len(engine_scores)
                THEN /\ idx' = idx + 1
                     /\ pc' = "save_scores"
                ELSE /\ idx' = 1
                     /\ pc' = "composite"
             /\ UNCHANGED <<exc, failures>>
        ELSE /\ Fail("w_score", StorageError("save_engine_score"))
             /\ UNCHANGED <<engine_scores_tbl, idx>>
    /\ UNCHANGED <<aux, parsed_data, identified, gap_calls, args, analysis, crawled_pages, simulation_results_tbl, gaps_tbl,
                   locals, attempts, outcome>>

\* 6. _calculate_composite_score and update_composite_score
UpdateCompositeScore ==
    /\ pc = "composite"
    /\ stages' = Log("composite")
    /\ composite_score' = _calculate_composite_score(engine_scores)
    /\ \E ok \in BOOLEAN :
        IF ok
        THEN /\ analysis' = update_composite_score(analysis, composite_score')
             /\ pc' = IF engine_scores = <<>> THEN AfterEngineGaps ELSE "identify_gaps"
             /\ UNCHANGED <<exc, failures>>
        ELSE /\ Fail("w_composite", StorageError("update_composite_score"))
             /\ UNCHANGED analysis
    /\ idx' = 1
    /\ UNCHANGED <<aux, parsed_data, identified, gap_calls, args, tables, crawled_content, engine_scores, all_gaps,
                   simulation_result, attempts, outcome>>

\* 7. identify_gaps of the engine of each score
GapLoopEngineByPosition(scores, i) ==
    EngineOrder[i]

\* the gap loop runs over the scores of the run and takes the engine
\* registered under the score's engine_name
GapLoopEngine(scores, i) ==
    scores[i].engine_name

IdentifyGaps ==
    /\ pc = "identify_gaps"
    /\ stages' = Log("identify_gaps")
    /\ gap_calls' = Append(gap_calls, GapLoopEngine(engine_scores, idx))
    /\ \E ok \in BOOLEAN :
        IF ok
        THEN /\ \E more \in EngineGapChoices(GapLoopEngine(engine_scores, idx)) :
                    LET gaps == SchemaGaps(GapLoopEngine(engine_scores, idx), parsed_data)
                                    \o more
                    IN  /\ all_gaps' = all_gaps \o gaps
                        /\ identified' = identified \o gaps
             /\ IF idx < Len(engine_scores)
                THEN /\ idx' = idx + 1
                     /\ pc' = "identify_gaps"
                ELSE /\ idx' = 1
                     /\ pc' = AfterEngineGaps
             /\ UNCHANGED <<exc, failures>>
        ELSE /\ Fail("identify_gaps", <<"E_identify_gaps">>)
             /\ UNCHANGED <<all_gaps, idx, identified>>
    /\ UNCHANGED <<aux, parsed_data, args, analysis, tables, crawled_content, engine_scores,
                   composite_score, simulation_result, attempts, outcome>>


\* 8a. _run_simulation: simulator.simulate_recommendation, by provider
RunSimulation ==
    /\ pc = "run_simulation"
    /\ stages' = Log("run_simulation")
    /\ \/ /\ simulator = "claude"
          /\ \/ /\ pc' = SimulationExceptPc
                /\ failures' = failures \cup {"sim_call"}
                /\ UNCHANGED simulation_result
             \/ /\ \E cited \in BOOLEAN, signals \in SignalChoices :
                      simulation_result' = SimResult(cited, signals)
                /\ pc' = "save_simulation"
                /\ UNCHANGED failures
       \/ /\ simulator = "ollama"
          /\ \/ /\ simulation_result' = FallbackResult
                /\ failures' = failures \cup {"backend_unreachable"}
             \/ /\ \E cited \in BOOLEAN, signals \in SignalChoices :
                      simulation_result' = SimResult(cited, signals)
                /\ UNCHANGED failures
          /\ pc' = "save_simulation"
       \/ /\ simulator = "openai"
          /\ simulation_result' = OpenAIDict
          /\ UNCHANGED failures
          /\ pc' = "save_simulation"
    /\ UNCHANGED <<aux, parsed_data, identified, gap_calls, args, analysis, tables, crawled_content, engine_scores,
                   composite_score, all_gaps, exc, idx, attempts, outcome>>

\* 8b. repository.save_simulation_result: attribute access on the result,
\* the row insert, then the JSON file; any exception is swallowed
SaveSimulationResult ==
    /\ pc = "save_simulation"
    /\ stages' = Log("save_simulation")
    /\ IF simulation_result.kind = "dict"
       THEN /\ pc' = SimulationExceptPc
            /\ failures' = failures \cup {"save_sim_attr"}
            /\ UNCHANGED simulation_results_tbl
       ELSE \E o \in {"ok", "db_fail", "json_fail"} :
            /\ simulation_results_tbl' =
                   IF o = "db_fail" THEN simulation_results_tbl
                   ELSE Append(simulation_results_tbl,
                               [analysis_id |-> AnalysisId, result |-> simulation_result])
            /\ IF o = "ok"
               THEN /\ pc' = "extract_simulation_gaps"
                    /\ UNCHANGED failures
               ELSE /\ pc' = OnWriteError("save_simulation_result")
                    /\ failures' = failures \cup {"w_sim"}
    /\ UNCHANGED <<aux, parsed_data, identified, gap_calls, args, analysis, crawled_pages, engine_scores_tbl, gaps_tbl, locals,
                   exc, idx, attempts, outcome>>

\* 8c. _extract_simulation_gaps and all_gaps.extend
ExtractSimulationGaps ==
    /\ pc = "extract_simulation_gaps"
    /\ stages' = Log("extract_simulation_gaps")
    /\ \E ok \in BOOLEAN :
        /\ all_gaps' = ExtendSimulationGaps(all_gaps, simulation_result, ok)
        /\ failures' = IF ok THEN failures ELSE failures \cup {"extract_sim"}
        /\ pc' = IF ok THEN "save_gaps" ELSE SimulationExceptPc
    /\ UNCHANGED <<aux, parsed_data, identified, gap_calls, args, analysis, tables, crawled_content, engine_scores,
                   composite_score, simulation_result, exc, idx, attempts, outcome>>

\* 9. repository.save_gaps: nothing is written for an empty list
SaveGaps ==
    /\ pc = "save_gaps"
    /\ stages' = Log("save_gaps")
    /\ IF all_gaps = <<>>
       THEN /\ pc' = "set_completed"
            /\ UNCHANGED <<gaps_tbl, exc, failures>>
       ELSE \E ok \in BOOLEAN :
            IF ok
            THEN /\ gaps_tbl' = save_gaps(gaps_tbl, all_gaps)
                 /\ pc' = "set_completed"
                 /\ UNCHANGED <<exc, failures>>
            ELSE /\ pc' = OnWriteError("save_gaps")
                 /\ exc' = StorageError("save_gaps")
                 /\ failures' = failures \cup {"w_gaps"}
                 /\ UNCHANGED gaps_tbl
    /\ UNCHANGED <<aux, parsed_data, identified, gap_calls, args, analysis, crawled_pages, engine_scores_tbl,
                   simulation_results_tbl, locals, idx, attempts, outcome>>

\* 10. update_analysis_status(COMPLETED) and return
SetCompleted ==
    /\ pc = "set_completed"
    /\ stages' = Log("set_completed")
    /\ \E ok \in BOOLEAN :
        IF ok
        THEN /\ analysis' = update_analysis_status(analysis, "completed", Null)
             /\ pc' = "returned"
             /\ UNCHANGED <<exc, failures>>
        ELSE /\ Fail("w_completed", StorageError("update_analysis_status"))
             /\ UNCHANGED analysis
    /\ UNCHANGED <<aux, parsed_data, identified, gap_calls, args, tables, locals, idx, attempts, outcome>>

\* except Exception: update_analysis_status(FAILED, str(e)) and re-raise
Handler ==
    /\ pc = "handler"
    /\ \E ok \in BOOLEAN :
        IF ok
        THEN /\ analysis' = update_analysis_status(analysis, "failed", exc)
             /\ UNCHANGED <<exc, failures>>
        ELSE /\ exc' = StorageError("update_analysis_status")
             /\ failures' = failures \cup {"w_failed"}
             /\ UNCHANGED analysis
    /\ pc' = "raised"
    /\ UNCHANGED <<aux, parsed_data, identified, gap_calls, args, tables, locals, idx, attempts, outcome, stages>>

Next ==
    \/ CreateAnalysis
    \/ SetProcessing
    \/ CrawlPrimary
    \/ CrawlFallback
    \/ SaveCrawledContent
    \/ ParseContent
    \/ RunEngine
    \/ SaveEngineScore
    \/ UpdateCompositeScore
    \/ IdentifyGaps
    \/ RunSimulation
    \/ SaveSimulationResult
    \/ ExtractSimulationGaps
    \/ SaveGaps
    \/ SetCompleted
    \/ Handler

Spec == Init /\ [][Next]_vars

TypeOK ==
    /\ analysis.status \in {"absent", "pending", "processing", "completed", "failed"}
    /\ pc \in {"create", "set_processing", "crawl_primary", "crawl_fallback",
               "save_crawled", "parse", "run_engines", "save_scores", "composite",
               "identify_gaps", "run_simulation", "save_simulation",
               "extract_simulation_gaps", "save_gaps", "set_completed", "handler",
               "returned", "raised"}


\* ------------------------------------------------------------------ claims
Terminated == pc \in {"returned", "raised"}

HasRecord == analysis.status # "absent"

\* C1 (as claimed): the status only moves pending -> processing -> completed
\* or pending -> processing -> failed, and once it is completed or failed
\* the status, composite score and error message never change again.
C1_Original ==
    [][/\ analysis'.status # analysis.status =>
            <<analysis.status, analysis'.status>> \in
                {<<"absent", "pending">>, <<"pending", "processing">>,
                 <<"processing", "completed">>, <<"processing", "failed">>}
       /\ analysis.status \in {"completed", "failed"} => analysis' = analysis]_vars

\* C1 (amended): as C1, except that pending -> failed also occurs, exactly
\* when the status write to processing itself raised; terminal rows are
\* never changed again.
C1_StatusTransitions ==
    [][/\ analysis'.status # analysis.status =>
            \/ <<analysis.status, analysis'.status>> \in
                   {<<"absent", "pending">>, <<"pending", "processing">>,
                    <<"processing", "completed">>, <<"processing", "failed">>}
            \/ /\ <<analysis.status, analysis'.status>> = <<"pending", "failed">>
               /\ "w_processing" \in failures
       /\ analysis.status \in {"completed", "failed"} => analysis' = analysis]_vars

C1_Witness ==
    /\ analysis.status = "failed"
    /\ "w_processing" \in failures
    /\ pc = "raised"

\* C2: in every state of the record, composite_score is non-null iff the
\* status is completed, and error_message is non-null iff the status is failed.
C2_ScoreIffCompleted ==
    HasRecord =>
        /\ (analysis.composite_score # NullScore) <=> (analysis.status = "completed")
        /\ (analysis.error_message # Null) <=> (analysis.status = "failed")

\* C3: once analyze_url has returned or raised, the record is completed with
\* a composite score or failed with an error message, never pending or
\* processing.
C3_TerminalAtExit ==
    (Terminated /\ HasRecord) =>
        \/ analysis.status = "completed" /\ analysis.composite_score # NullScore
        \/ analysis.status = "failed" /\ analysis.error_message # Null


\* weighted mean of the engines that scored, recomputed from the history
ExpectedN ==
    LET c(e) == IF outcome[e].state = "ok" THEN outcome[e].score * EngineWeight(e) ELSE 0
    IN  c("ADE") + c("ARCE") + c("TRE")

ExpectedW ==
    LET w(e) == IF outcome[e].state = "ok" THEN EngineWeight(e) ELSE 0
    IN  w("ADE") + w("ARCE") + w("TRE")

IsWeightedMean(c) ==
    IF ExpectedW = 0 THEN c = 0
    ELSE LET diff == c * ExpectedW - 100 * ExpectedN
         IN  2 * diff <= ExpectedW /\ 2 * diff >= -ExpectedW

RaisedEngines == {e \in EngineNames : outcome[e].state = "raised"}

ScoredEngines == {e \in EngineNames : outcome[e].state = "ok"}

\* failures that leave fetch, extraction, gap identification and storage intact
OnlyEngineOrSimulationFailed ==
    failures \subseteq {"analyze", "fetch_primary", "sim_call", "save_sim_attr",
                        "extract_sim", "backend_unreachable"}

\* C4: when some engine X raises in analyze and fetch, extraction and storage
\* succeed, the run completes, the composite is the weighted mean of the
\* remaining engines only, no score of X is persisted and no gap has source X.
C4_EngineFailureIsolation ==
    (Terminated /\ OnlyEngineOrSimulationFailed
                /\ RaisedEngines # {} /\ ScoredEngines # {}) =>
        /\ pc = "returned"
        /\ analysis.status = "completed"
        /\ IsWeightedMean(analysis.composite_score)
        /\ {engine_scores_tbl[i].engine_name : i \in DOMAIN engine_scores_tbl} = ScoredEngines
        /\ \A i \in DOMAIN gaps_tbl : gaps_tbl[i].engine_source \notin RaisedEngines

C4_Witness ==
    /\ pc = "returned"
    /\ outcome["ADE"].state = "raised"
    /\ outcome["ARCE"].state = "ok"
    /\ outcome["TRE"].state = "ok"
    /\ analysis.status = "completed"
    /\ gaps_tbl # <<>>

\* C5: when every engine raises in analyze, the run completes with a
\* persisted composite of exactly 0.0, no engine score and no engine gap.
C5_AllEnginesFail ==
    (Terminated /\ OnlyEngineOrSimulationFailed /\ RaisedEngines = EngineNames) =>
        /\ pc = "returned"
        /\ analysis.status = "completed"
        /\ analysis.composite_score = 0
        /\ engine_scores_tbl = <<>>
        /\ \A i \in DOMAIN gaps_tbl : gaps_tbl[i].engine_source \notin EngineNames

C5_Witness ==
    /\ pc = "returned"
    /\ RaisedEngines = EngineNames
    /\ analysis.status = "completed"
    /\ analysis.composite_score = 0

NothingAfterAcquisition ==
    /\ stages = <<>>
    /\ \A e \in EngineNames : outcome[e] = NotRun
    /\ crawled_pages = <<>>
    /\ engine_scores_tbl = <<>>
    /\ simulation_results_tbl = <<>>
    /\ gaps_tbl = <<>>
    /\ analysis.composite_score = NullScore

\* C6: when both fetches fail, the analysis ends in failed with the
\* fallback's error in its error message, analyze_url raises, and nothing
\* after acquisition runs or is written.
C6_AcquisitionFailureFatal ==
    (Terminated /\ "fetch_fallback" \in failures) =>
        /\ pc = "raised"
        /\ analysis.status = "failed"
        /\ analysis.error_message = CrawlerExceptionMsg(Url, <<"E_playwright">>)
        /\ NothingAfterAcquisition

FullStages ==
    <<"save_crawled", "parse", "run_engines", "save_scores", "composite", "identify_gaps">>
    \o (IF SimEnabled
          THEN <<"run_simulation", "save_simulation", "extract_simulation_gaps">>
          ELSE <<>>)
    \o <<"save_gaps", "set_completed">>

\* C7: the fallback fetch is attempted iff the primary failed, each strategy
\* at most once; after a fallback success the persisted content carries the
\* playwright tag and the run goes through the same stages to completed as
\* a run whose primary fetch succeeded.
C7_FallbackOnce ==
    /\ attempts.primary <= 1
    /\ attempts.fallback <= 1
    /\ attempts.fallback = 1 => "fetch_primary" \in failures
    /\ ("fetch_primary" \in failures /\ pc # "crawl_fallback") => attempts.fallback = 1
    /\ \A i \in DOMAIN crawled_pages :
          crawled_pages[i].crawl_method =
              IF "fetch_primary" \in failures THEN "playwright" ELSE "beautifulsoup"
    /\ (Terminated /\ failures \subseteq {"fetch_primary"}) =>
          /\ pc = "returned"
          /\ analysis.status = "completed"
          /\ stages = FullStages

C7_Witness ==
    /\ pc = "returned"
    /\ failures = {"fetch_primary"}
    /\ attempts = [primary |-> 1, fallback |-> 1]
    /\ crawled_pages = <<PlaywrightContent>>
    /\ analysis.status = "completed"

\* C8: when extraction fails after a successful fetch, the analysis ends in
\* failed with the extraction error's message, analyze_url raises, no engine
\* runs and no engine score, composite score or gap is persisted.
C8_ExtractionFailureFatal ==
    (Terminated /\ "parse" \in failures) =>
        /\ pc = "raised"
        /\ analysis.status = "failed"
        /\ analysis.error_message = <<"E_parse">>
        /\ \A e \in EngineNames : outcome[e] = NotRun
        /\ engine_scores_tbl = <<>>
        /\ gaps_tbl = <<>>
        /\ analysis.composite_score = NullScore

SimFailureTags == {"sim_call", "w_sim", "save_sim_attr", "extract_sim"}

IsSimGap(g) == g.engine_source = "AI_SIMULATION"

WriteTags ==
    {"w_processing", "w_crawled", "w_score", "w_composite", "w_sim", "w_gaps",
     "w_completed", "w_failed"}

\* C10 (as claimed): every storage write that fails during a run makes
\* analyze_url raise and the run does not end in completed.
C10_Original ==
    (Terminated /\ failures \cap WriteTags # {}) =>
        /\ pc = "raised"
        /\ analysis.status # "completed"

\* C10 (amended): every failing storage write other than
\* save_simulation_result makes analyze_url raise and the run does not end
\* in completed; a failing save_simulation_result is swallowed with the
\* simulation block and does not by itself stop the run from completing.
C10_WriteFailuresPropagate ==
    /\ (Terminated /\ failures \cap (WriteTags \ {"w_sim"}) # {}) =>
          /\ pc = "raised"
          /\ analysis.status # "completed"
    /\ (Terminated /\ "w_sim" \in failures
                   /\ failures \subseteq {"w_sim", "fetch_primary", "analyze",
                                          "backend_unreachable"}) =>
          /\ pc = "returned"
          /\ analysis.status = "completed"

C10_Witness ==
    /\ pc = "raised"
    /\ "w_gaps" \in failures
    /\ analysis.status = "failed"
    /\ analysis.error_message = StorageError("save_gaps")


\* C11: when an exception escapes a pipeline stage, the analysis is marked
\* failed with that exception's message and the same exception reaches the
\* caller only after the failed status is stored; the caller never sees the
\* raise while the stored status is still processing.
C11_FailedBeforeRaise ==
    (pc = "raised" /\ HasRecord) =>
        /\ analysis.status = "failed"
        /\ analysis.error_message = exc

C14_ScoresAndGapsAllOrNone ==
    /\ engine_scores_tbl = <<>> \/ engine_scores_tbl = engine_scores
    /\ gaps_tbl = <<>> \/ gaps_tbl = all_gaps

\* C16: _extract_simulation_gaps returns one critical not_cited_by_ai gap
\* exactly when brand_cited is false, then one medium missing_attribute gap
\* per entry of missing_signals, in order and naming its signal, all with
\* source AI_SIMULATION; in the run's gap list they follow every engine gap.
C16_SimulationGapExtraction ==
    LET r == simulation_result
        g == _extract_simulation_gaps(r)
        off == IF r.brand_cited THEN 0 ELSE 1
    IN  /\ Len(g) = off + Len(r.missing_signals)
        /\ ~r.brand_cited =>
              /\ g[1].gap_type = "not_cited_by_ai"
              /\ g[1].severity = "critical"
        /\ \A j \in DOMAIN r.missing_signals :
              /\ g[off + j].gap_type = "missing_attribute"
              /\ g[off + j].severity = "medium"
              /\ g[off + j].signal = r.missing_signals[j]
        /\ \A i \in DOMAIN g : g[i].engine_source = "AI_SIMULATION"
        /\ \A i, j \in DOMAIN all_gaps :
              (i < j /\ IsSimGap(all_gaps[i])) => IsSimGap(all_gaps[j])
        /\ (\E i \in DOMAIN all_gaps : IsSimGap(all_gaps[i])) =>
              all_gaps = identified \o g

C16_Witness ==
    /\ pc = "returned"
    /\ ~simulation_result.brand_cited
    /\ Len(simulation_result.missing_signals) = 2
    /\ identified # <<>>
    /\ Len(gaps_tbl) = Len(identified) + 3
    /\ gaps_tbl[Len(gaps_tbl)].signal = "shipping"

\* C20: for a page without a Product schema (the parser's product entry
\* is None) in a run that completes, ADE still reports an engine score, the
\* score takes part in the composite with ADE's weight, and the final gap
\* set holds a critical missing_schema gap whose source is ADE.
C20_NoProductSchema ==
    (pc = "returned" /\ ~parsed_data.product_present) =>
        /\ outcome["ADE"].state = "ok"
        /\ \E i \in DOMAIN engine_scores_tbl :
              /\ engine_scores_tbl[i].engine_name = "ADE"
              /\ engine_scores_tbl[i].weight = weight_ade
        /\ \E i \in DOMAIN gaps_tbl :
              /\ gaps_tbl[i].gap_type = "missing_schema"
              /\ gaps_tbl[i].severity = "critical"
              /\ gaps_tbl[i].engine_source = "ADE"

\* ------------------------------------------- _calculate_composite_score
\* analyze_url is not running
PipelineIdle ==
    /\ pc = "off"
    /\ simulator = "none"
    /\ brand = FALSE
    /\ product_category = FALSE
    /\ use_case = FALSE
    /\ analysis = NoAnalysis
    /\ crawled_pages = <<>>
    /\ engine_scores_tbl = <<>>
    /\ simulation_results_tbl = <<>>
    /\ crawled_content = NoContent
    /\ engine_scores = <<>>
    /\ composite_score = NullScore
    /\ all_gaps = <<>>
    /\ simulation_result = NoResult
    /\ exc = Null
    /\ idx = 1
    /\ failures = {}
    /\ attempts = [primary |-> 0, fallback |-> 0]
    /\ outcome = [e \in EngineNames |-> NotRun]
    /\ stages = <<>>
    /\ identified = <<>>
    /\ gap_calls = <<>>
    /\ parsed_data = NoParsedData

PipelineOff ==
    /\ PipelineIdle
    /\ gaps_tbl = <<>>

pipeline == <<pc, args, analysis, tables, locals, exc, idx, failures, attempts,
              outcome, stages, identified, gap_calls, parsed_data>>

\* EngineScore.score in 0..100, EngineScore.weight in hundredths of 0..1
AnyScores == {0, 33, 100}

AnyWeights == {0, 20, 30, 100}

AnyEngineScore == [score : AnyScores, weight : AnyWeights]

AnyEngineScores ==
    UNION {[1..n -> AnyEngineScore] : n \in 0..MaxScores}

InitComposite ==
    /\ PipelineOff
    /\ fn_in \in AnyEngineScores
    /\ fn_out = 0
    /\ fn_done = FALSE
    /\ runs = <<>>
    /\ db = <<>>

CalculateComposite ==
    /\ ~fn_done
    /\ fn_out' = _calculate_composite_score(fn_in)
    /\ fn_done' = TRUE
    /\ UNCHANGED <<pipeline, fn_in, runs, db>>

NextComposite == CalculateComposite

SpecComposite == InitComposite /\ [][NextComposite]_vars

TotalWeight(scores) ==
    LET f[i \in 0..Len(scores)] == IF i = 0 THEN 0 ELSE f[i - 1] + scores[i].weight
    IN  f[Len(scores)]

WeightedSum(scores) ==
    LET f[i \in 0..Len(scores)] ==
            IF i = 0 THEN 0 ELSE f[i - 1] + scores[i].score * scores[i].weight
    IN  f[Len(scores)]

\* C17: for scores in [0,100] and weights in [0,1] with total weight above
\* zero, _calculate_composite_score returns the sum of score times weight
\* divided by the sum of weights, rounded to two decimals (within half a
\* hundredth), with no other renormalisation, and the result is in [0,100].
C17_WeightedMean ==
    (fn_done /\ TotalWeight(fn_in) > 0) =>
        LET W == TotalWeight(fn_in)
            N == 100 * WeightedSum(fn_in)
            d == fn_out * W - N
        IN  /\ 2 * d <= W
            /\ -2 * d <= W
            /\ fn_out >= 0
            /\ fn_out <= 10000

C17_Witness ==
    /\ fn_done
    /\ Len(fn_in) = 3
    /\ fn_in[1] = [score |-> 100, weight |-> 30]
    /\ fn_in[2] = [score |-> 33, weight |-> 20]
    /\ fn_in[3] = [score |-> 0, weight |-> 20]
    /\ fn_out = 5229

\* C18: when the total weight is zero, for the empty score set and for
\* weights that are all zero whatever the scores, _calculate_composite_score
\* returns exactly 0.0.
C18_ZeroWeight ==
    (fn_done /\ TotalWeight(fn_in) = 0) => fn_out = 0

C18_Witness ==
    /\ fn_done
    /\ Len(fn_in) = 2
    /\ fn_in[1] = [score |-> 100, weight |-> 0]
    /\ fn_in[2] = [score |-> 33, weight |-> 0]
    /\ fn_out = 0

\* --------------------------------------------------- Repository.get_gaps
Severities == {"critical", "high", "medium", "low"}

\* rows of table gaps in insertion order; rowid is the position
StoredGapRows ==
    UNION {[1..n -> [analysis_id : {"a1", "a2"}, severity : Severities]] :
             n \in 0..MaxStoredGaps}

\* first byte of the severity text: ORDER BY severity compares the TEXT
\* column bytewise (c < h < l < m)
SeverityText(severity) ==
    CASE severity = "critical" -> 99
      [] severity = "high" -> 104
      [] severity = "low" -> 108
      [] severity = "medium" -> 109

\* rowids of the rows SELECT ... WHERE analysis_id = ? matches
MatchingRows(tbl, analysis_id) ==
    {i \in DOMAIN tbl : tbl[i].analysis_id = analysis_id}

\* the row orders ORDER BY severity allows: ascending severity text, rows
\* with equal text in an order SQL leaves open
get_gaps(tbl, analysis_id) ==
    LET ids == MatchingRows(tbl, analysis_id)
        n == Cardinality(ids)
    IN  {[k \in 1..n |-> [rowid |-> o[k], severity |-> tbl[o[k]].severity]] :
            o \in {f \in [1..n -> ids] :
                      /\ \A i, j \in 1..n : i # j => f[i] # f[j]
                      /\ \A i, j \in 1..n :
                            i < j => SeverityText(tbl[f[i]].severity)
                                        <= SeverityText(tbl[f[j]].severity)}}

InitGetGaps ==
    /\ PipelineOff
    /\ fn_in \in StoredGapRows
    /\ fn_out = <<>>
    /\ fn_done = FALSE
    /\ runs = <<>>
    /\ db = <<>>

GetGaps ==
    /\ ~fn_done
    /\ fn_out' \in get_gaps(fn_in, "a1")
    /\ fn_done' = TRUE
    /\ UNCHANGED <<pipeline, fn_in, runs, db>>

NextGetGaps == GetGaps

SpecGetGaps == InitGetGaps /\ [][NextGetGaps]_vars

SeverityRank(severity) ==
    CASE severity = "critical" -> 0
      [] severity = "high" -> 1
      [] severity = "medium" -> 2
      [] severity = "low" -> 3

\* C15: the list Repository.get_gaps returns is ordered by severity rank
\* critical < high < medium < low for any mix of the four severities, and
\* gaps of equal severity keep their stored order.
C15_GetGapsBySeverityRank ==
    fn_done =>
        /\ {fn_out[k].rowid : k \in DOMAIN fn_out} = MatchingRows(fn_in, "a1")
        /\ \A i, j \in DOMAIN fn_out :
              i < j =>
                 /\ SeverityRank(fn_out[i].severity) <= SeverityRank(fn_out[j].severity)
                 /\ fn_out[i].severity = fn_out[j].severity =>
                        fn_out[i].rowid < fn_out[j].rowid

\* ------------------------------------------------ engine scoring, in
\* hundredths of a point
Min(a, b) == IF a < b THEN a ELSE b

Points(flag, points) == IF flag THEN points ELSE 0

\* scoring_utils.calculate_richness_score
calculate_richness_score(char_count, benchmark_chars, max_points) ==
    IF char_count >= benchmark_chars THEN max_points
    ELSE (char_count * max_points) \div benchmark_chars

\* ADEEngine._score_schema_completeness: completeness is field_count / 10
_score_schema_completeness(in) ==
    IF ~in.product_present THEN 0 ELSE (in.field_count * 4000) \div 10

\* product.get('description', '') or html_data.get('meta_description', '')
RichnessText(in) ==
    IF in.description_chars > 0 THEN in.description_chars ELSE in.meta_description_chars

_score_attribute_richness(in) ==
    calculate_richness_score(RichnessText(in), 300, 1500)
        + Points(in.has_brand, 750) + Points(in.has_sku, 750)

_score_image_quality(in) ==
    IF in.images = 0 THEN 0
    ELSE Min(1000, in.images * 250) + (in.images_with_alt * 1000) \div in.images

_score_technical_specs(in) ==
    Min(1000, in.spec_mentions * 200)

\* ARCEEngine
_score_semantic_html(in) ==
    Min(3000, in.semantic_count * 300)

_score_readability(in) ==
    IF in.text_chars < 100 THEN 0
    ELSE IF in.flesch >= 60 THEN 2500
    ELSE IF in.flesch >= 30 THEN (in.flesch * 2500) \div 60
    ELSE (in.flesch * 1250) \div 30

HeadingHierarchyExactlyOneH1(in) ==
    Points(in.h1_count = 1, 1000) + Points(~(in.h1_count > 1), 1000)
        + Points(~in.skipped_levels, 500)

_score_heading_hierarchy(in) ==
    Points(in.h1_count >= 1, 1000) + Points(~(in.h1_count > 1), 1000)
        + Points(~in.skipped_levels, 500)

_score_metadata(in) ==
    Points(in.title, 500) + Points(in.meta_description, 500)
        + Points(in.og_tags >= 3, 500) + Points(in.canonical_url, 500)

\* TREEngine
_score_cta_presence(in) ==
    Min(3000, Points(in.buy_button, 1500) + Points(in.offers # "none", 1500)
                 + Points(in.offers = "priced", 500))

_score_trust_signals(in) ==
    Points(in.https, 1000) + Points(in.has_reviews, 1000) + Points(in.return_policy, 1000)

_score_contact_info(in) ==
    Points(in.email, 700) + Points(in.phone, 700) + Points(in.address, 600)

_score_payment_shipping_info(in) ==
    Points(in.payment, 1000) + Points(in.shipping, 1000)

\* the four sub-scores of an engine, in the order analyze computes them
SubScores(in) ==
    CASE in.engine = "ADE" ->
            <<_score_schema_completeness(in), _score_attribute_richness(in),
              _score_image_quality(in), _score_technical_specs(in)>>
      [] in.engine = "ARCE" ->
            <<_score_semantic_html(in), _score_readability(in),
              _score_heading_hierarchy(in), _score_metadata(in)>>
      [] in.engine = "TRE" ->
            <<_score_cta_presence(in), _score_trust_signals(in),
              _score_contact_info(in), _score_payment_shipping_info(in)>>

\* analyze: the EngineScore, or the exception of ADE on a None product
\* the entries of the details dict that are not sub-scores
Facts(in) ==
    CASE in.engine = "ADE" ->
            [product_schema_present |-> in.product_present,
             description_length |-> in.description_chars,
             image_count |-> in.images]
      [] in.engine = "ARCE" ->
            [semantic_element_count |-> in.semantic_count,
             flesch_reading_ease |-> in.flesch]
      [] in.engine = "TRE" ->
            [buy_button_found |-> in.buy_button, has_ssl |-> in.https,
             has_reviews |-> in.has_reviews, has_offer |-> in.offers # "none"]

NotAnalyzed ==
    [raised |-> FALSE, score |-> 0, details |-> <<>>, facts |-> <<>>,
     identified |-> FALSE, gaps |-> <<>>]

analyze(in) ==
    IF in.engine = "ADE" /\ ~ADEAnalyzeOk(in, TRUE)
    THEN [NotAnalyzed EXCEPT !.raised = TRUE]
    ELSE LET d == SubScores(in)
         IN  [NotAnalyzed EXCEPT !.score = d[1] + d[2] + d[3] + d[4],
                                 !.details = d, !.facts = Facts(in)]

GapIf(cond, e, gap_type, severity) ==
    IF cond THEN <<create_gap(e, gap_type, severity)>> ELSE <<>>

ADE_identify_gaps(score, in) ==
    GapIf(~in.product_present, "ADE", "missing_schema", "critical")
    \o GapIf("name" \in in.missing_fields, "ADE", "missing_field_name", "high")
    \o GapIf("description" \in in.missing_fields, "ADE", "missing_field_description", "high")
    \o GapIf("image" \in in.missing_fields, "ADE", "missing_field_image", "high")
    \o GapIf("offers" \in in.missing_fields, "ADE", "missing_field_offers", "high")
    \o GapIf(score.facts.description_length < 100, "ADE", "short_description", "medium")
    \o GapIf(score.facts.image_count = 0, "ADE", "no_images", "high")

ARCE_identify_gaps(score, in) ==
    GapIf(in.semantic_count < 5, "ARCE", "low_semantic_html", "medium")
    \o GapIf(in.h1_count = 0, "ARCE", "missing_h1", "high")
    \o GapIf(in.h1_count > 1, "ARCE", "multiple_h1", "medium")
    \o GapIf(score.facts.flesch_reading_ease < 30, "ARCE", "poor_readability", "medium")
    \o GapIf(~in.meta_description, "ARCE", "missing_meta_description", "medium")

TREGapsOfferNeedsPrice(score, in) ==
    GapIf(~in.buy_button, "TRE", "no_buy_button", "critical")
    \o GapIf(in.offers # "priced", "TRE", "missing_offer_schema", "high")
    \o GapIf(~in.has_reviews, "TRE", "no_reviews", "medium")
    \o GapIf(~score.facts.has_ssl, "TRE", "no_ssl", "critical")
    \o GapIf(~in.email /\ ~in.phone, "TRE", "no_contact_info", "high")

TRE_identify_gaps(score, in) ==
    GapIf(~in.buy_button, "TRE", "no_buy_button", "critical")
    \o GapIf(in.offers = "none", "TRE", "missing_offer_schema", "high")
    \o GapIf(~in.has_reviews, "TRE", "no_reviews", "medium")
    \o GapIf(~score.facts.has_ssl, "TRE", "no_ssl", "critical")
    \o GapIf(~in.email /\ ~in.phone, "TRE", "no_contact_info", "high")

\* identify_gaps of the engine that produced the score, on the same content
identify_gaps(score, in) ==
    CASE in.engine = "ADE" -> ADE_identify_gaps(score, in)
      [] in.engine = "ARCE" -> ARCE_identify_gaps(score, in)
      [] in.engine = "TRE" -> TRE_identify_gaps(score, in)

FleschGrid == <<-90, 45, 120, 0, 30, 60>>

FleschValues ==
    {FleschGrid[i] : i \in 1..(IF NumFleschValues < 6 THEN NumFleschValues ELSE 6)}

CriticalFields == {"name", "description", "image", "offers"}

\* a Product schema agrees with its validation: no recommended field
\* present means no description and no identifier, all ten present means
\* both; the description is a missing field exactly when it is empty
ConsistentProduct(in) ==
    /\ "description" \in in.missing_fields <=> in.description_chars = 0
    /\ in.field_count = 0 <=> in.missing_fields = CriticalFields
    /\ in.field_count = 0 => ~in.has_sku
    /\ in.field_count = 10 => (in.missing_fields = {} /\ in.has_sku /\ in.has_brand)
    /\ in.images_with_alt <= in.images

ADEInputs ==
    {in \in [engine : {"ADE"}, product_present : {TRUE}, field_count : {0, 4, 10},
             missing_fields : {{}, {"offers"}, {"description"},
                               {"description", "offers"}, CriticalFields},
             description_chars : {0, 60, 300, 900}, meta_description_chars : {0, 240},
             has_brand : BOOLEAN, has_sku : BOOLEAN,
             images : {0, 2, 5}, images_with_alt : {0}, spec_mentions : {0, 3, 9}] :
        ConsistentProduct(in)}
    \cup {in \in [engine : {"ADE"}, product_present : {TRUE}, field_count : {10},
                  missing_fields : {{}},
                  description_chars : {900}, meta_description_chars : {0},
                  has_brand : {TRUE}, has_sku : {TRUE},
                  images : {2, 4}, images_with_alt : {1, 2, 4}, spec_mentions : {9}] :
             ConsistentProduct(in)}
    \cup [engine : {"ADE"}, product_present : {FALSE}, field_count : {0},
          missing_fields : {CriticalFields},
          description_chars : {0}, meta_description_chars : {0, 240},
          has_brand : BOOLEAN, has_sku : {FALSE},
          images : {0, 2}, images_with_alt : {0}, spec_mentions : {0, 3}]

ARCEInputs ==
    [engine : {"ARCE"}, semantic_count : {0, 4, 12}, text_chars : {0, 99},
     flesch : {0}, h1_count : {0, 1, 2}, skipped_levels : BOOLEAN,
     title : BOOLEAN, meta_description : BOOLEAN, og_tags : {0, 3},
     canonical_url : BOOLEAN]
    \cup [engine : {"ARCE"}, semantic_count : {0, 12}, text_chars : {100, 5000},
          flesch : FleschValues, h1_count : {0, 1, 2}, skipped_levels : BOOLEAN,
          title : BOOLEAN, meta_description : BOOLEAN, og_tags : {0, 3},
          canonical_url : BOOLEAN]

TREInputs ==
    [engine : {"TRE"}, buy_button : BOOLEAN, offers : {"none", "unpriced", "priced"},
     https : BOOLEAN, has_reviews : BOOLEAN, return_policy : BOOLEAN,
     email : BOOLEAN, phone : BOOLEAN, address : BOOLEAN, payment : BOOLEAN,
     shipping : BOOLEAN]

InitEngines ==
    /\ PipelineOff
    /\ fn_in \in ADEInputs \cup ARCEInputs \cup TREInputs
    /\ fn_out = NotAnalyzed
    /\ fn_done = FALSE
    /\ runs = <<>>
    /\ db = <<>>

Analyze ==
    /\ ~fn_done
    /\ fn_out' = analyze(fn_in)
    /\ fn_done' = TRUE
    /\ UNCHANGED <<pipeline, fn_in, runs, db>>

\* the gap loop calls identify_gaps for a score that analyze returned
IdentifyEngineGaps ==
    /\ fn_done
    /\ ~fn_out.raised
    /\ ~fn_out.identified
    /\ fn_out' = [fn_out EXCEPT !.identified = TRUE,
                                !.gaps = identify_gaps(fn_out, fn_in)]
    /\ UNCHANGED <<pipeline, fn_in, fn_done, runs, db>>

NextEngines == Analyze \/ IdentifyEngineGaps

SpecEngines == InitEngines /\ [][NextEngines]_vars

\* documented maximum of each sub-score
SubScoreMax(engine) ==
    CASE engine = "ADE" -> <<4000, 3000, 2000, 1000>>
      [] engine = "ARCE" -> <<3000, 2500, 2500, 2000>>
      [] engine = "TRE" -> <<3000, 3000, 2000, 2000>>

\* C19: for every parsed content, also with a reading ease that is negative
\* or above 100, the total of each engine is in [0,100] and each sub-score
\* is between 0 and its documented maximum.
C19_ScoresInRange ==
    (fn_done /\ ~fn_out.raised) =>
        /\ fn_out.score >= 0
        /\ fn_out.score <= 10000
        /\ \A k \in 1..4 :
              /\ fn_out.details[k] >= 0
              /\ fn_out.details[k] <= SubScoreMax(fn_in.engine)[k]

\* ------------------------------------------ two concurrent analyze_url
Runs == {"r1", "r2"}

IdPool == <<"a1", "a2">>

\* the page behind a URL fixes what the engines score
UrlScore(url, e) ==
    CASE url = "u1" /\ e = "ADE" -> 100
      [] url = "u1" /\ e = "ARCE" -> 40
      [] url = "u1" /\ e = "TRE" -> 0
      [] url = "u2" /\ e = "ADE" -> 40
      [] url = "u2" /\ e = "ARCE" -> 0
      [] url = "u2" /\ e = "TRE" -> 100

ExistingIdForUrl(rows, url) ==
    IF \E i \in DOMAIN rows : rows[i].url = url
    THEN rows[CHOOSE i \in DOMAIN rows : rows[i].url = url].id
    ELSE IdPool[Len(rows) + 1]

\* create_analysis: str(uuid.uuid4()), a fresh id whatever the URL
new_analysis_id(rows, url) ==
    IdPool[Len(rows) + 1]

\* UPDATE analyses SET ... WHERE id = ?
UpdateWhereId(rows, id, status, error_message) ==
    [i \in DOMAIN rows |->
        IF rows[i].id = id
        THEN update_analysis_status(rows[i], status, error_message)
        ELSE rows[i]]

UpdateCompositeWhereId(rows, id, score) ==
    [i \in DOMAIN rows |->
        IF rows[i].id = id THEN update_composite_score(rows[i], score) ELSE rows[i]]

\* SELECT ... WHERE analysis_id = ?
WhereAnalysisId(rows, id) ==
    SelectSeq(rows, LAMBDA row : row.analysis_id = id)

NoRows ==
    [analyses |-> <<>>, crawled_pages |-> <<>>, engine_scores |-> <<>>,
     simulation_results |-> <<>>, gaps |-> <<>>]

\* what the database holds for one analysis id
RowsOf(d, id) ==
    [analyses |-> SelectSeq(d.analyses, LAMBDA row : row.id = id),
     crawled_pages |-> WhereAnalysisId(d.crawled_pages, id),
     engine_scores |-> WhereAnalysisId(d.engine_scores, id),
     simulation_results |-> WhereAnalysisId(d.simulation_results, id),
     gaps |-> WhereAnalysisId(d.gaps, id)]

\* locals of one analyze_url call; own is the history of what it wrote
StartRun(url, sim) ==
    [pc |-> "create", url |-> url, sim |-> sim, id |-> "", engine_scores |-> <<>>,
     composite_score |-> NullScore, all_gaps |-> <<>>, exc |-> Null, idx |-> 1,
     own |-> NoRows]

InitTwoRuns ==
    /\ PipelineOff
    /\ fn_in = <<>>
    /\ fn_out = <<>>
    /\ fn_done = FALSE
    /\ \E url \in {"u1", "u2"}, s1, s2 \in BOOLEAN :
          runs = [r \in Runs |-> IF r = "r1" THEN StartRun("u1", s1)
                                 ELSE StartRun(url, s2)]
    /\ db = NoRows

single == <<pipeline, fn_in, fn_out, fn_done>>

\* raise into the except branch of the run's analyze_url
RunFail(r, msg) ==
    [runs EXCEPT ![r].pc = "handler", ![r].exc = msg]

\* engine scores of a run: every engine scored, or every engine raised
RunScores(run, scored) ==
    IF scored
    THEN [i \in DOMAIN EngineOrder |->
             [create_score(EngineOrder[i], UrlScore(run.url, EngineOrder[i]))
                 EXCEPT !.analysis_id = run.id]]
    ELSE <<>>

\* one gap per scored engine, carrying the score's analysis id
RunGaps(run) ==
    [i \in DOMAIN run.engine_scores |->
        [EngineGapList(run.engine_scores[i].engine_name)[1]
            EXCEPT !.analysis_id = run.engine_scores[i].analysis_id]]

RunSimulationGaps(run) ==
    [i \in DOMAIN _extract_simulation_gaps(SimResult(FALSE, <<>>)) |->
        [_extract_simulation_gaps(SimResult(FALSE, <<>>))[i]
            EXCEPT !.analysis_id = run.id]]

TwoCreate(r) ==
    /\ runs[r].pc = "create"
    /\ \E ok \in BOOLEAN :
        IF ok
        THEN LET id == new_analysis_id(db.analyses, runs[r].url)
                 row == [id |-> id, url |-> runs[r].url] @@ NewAnalysis
             IN  /\ db' = [db EXCEPT !.analyses = Append(@, row)]
                 /\ runs' = [runs EXCEPT ![r].pc = "set_processing",
                                         ![r].id = id,
                                         ![r].own.analyses = <<row>>]
        ELSE /\ runs' = [runs EXCEPT ![r].pc = "raised",
                                     ![r].exc = StorageError("create_analysis")]
             /\ UNCHANGED db
    /\ UNCHANGED single

\* update_analysis_status of the run's own id; the except branch on failure
TwoUpdateStatus(r, at, status, error_message, then) ==
    /\ runs[r].pc = at
    /\ \E ok \in BOOLEAN :
        IF ok
        THEN /\ db' = [db EXCEPT !.analyses =
                          UpdateWhereId(@, runs[r].id, status, error_message)]
             /\ runs' = [runs EXCEPT
                           ![r].pc = then,
                           ![r].own.analyses =
                               UpdateWhereId(@, runs[r].id, status, error_message)]
        ELSE /\ runs' = IF at = "handler"
                        THEN [runs EXCEPT ![r].pc = "raised",
                                          ![r].exc = StorageError("update_analysis_status")]
                        ELSE RunFail(r, StorageError("update_analysis_status"))
             /\ UNCHANGED db

TwoSetProcessing(r) ==
    /\ TwoUpdateStatus(r, "set_processing", "processing", Null, "crawl")
    /\ UNCHANGED single

TwoCrawl(r) ==
    /\ runs[r].pc = "crawl"
    /\ \E ok \in BOOLEAN :
        runs' = IF ok THEN [runs EXCEPT ![r].pc = "save_crawled"]
                ELSE RunFail(r, CrawlerExceptionMsg(runs[r].url, <<"E_playwright">>))
    /\ UNCHANGED <<db, single>>

\* an INSERT of the run's rows into one table; the next position on
\* success, the except branch (or the swallowing branch) on failure
TwoInsert(r, at, table, rows, then, onerror) ==
    /\ runs[r].pc = at
    /\ \E ok \in BOOLEAN :
        IF ok
        THEN /\ db' = [db EXCEPT ![table] = @ \o rows]
             /\ runs' = [runs EXCEPT ![r].pc = then,
                                     ![r].own[table] = @ \o rows]
        ELSE /\ runs' = IF onerror = "handler" THEN RunFail(r, StorageError(table))
                        ELSE [runs EXCEPT ![r].pc = onerror]
             /\ UNCHANGED db

TwoSaveCrawled(r) ==
    /\ TwoInsert(r, "save_crawled", "crawled_pages",
                 <<[BeautifulSoupContent EXCEPT !.analysis_id = runs[r].id]>>,
                 "analyze", "handler")
    /\ UNCHANGED single

\* _parse_content and _run_engines
TwoAnalyze(r) ==
    /\ runs[r].pc = "analyze"
    /\ \/ runs' = RunFail(r, <<"E_parse">>)
       \/ \E scored \in BOOLEAN :
            LET scores == RunScores(runs[r], scored)
            IN  runs' = [runs EXCEPT
                           ![r].engine_scores = scores,
                           ![r].idx = 1,
                           ![r].pc = IF scores = <<>> THEN "composite" ELSE "save_scores"]
    /\ UNCHANGED <<db, single>>

TwoSaveEngineScore(r) ==
    /\ runs[r].pc = "save_scores"
    /\ \E ok \in BOOLEAN :
        IF ok
        THEN /\ db' = [db EXCEPT !.engine_scores =
                          Append(@, runs[r].engine_scores[runs[r].idx])]
             /\ runs' = [runs EXCEPT
                           ![r].own.engine_scores =
                               Append(@, runs[r].engine_scores[runs[r].idx]),
                           ![r].idx = IF @ < Len(runs[r].engine_scores) THEN @ + 1 ELSE 1,
                           ![r].pc = IF runs[r].idx < Len(runs[r].engine_scores)
                                     THEN "save_scores" ELSE "composite"]
        ELSE /\ runs' = RunFail(r, StorageError("save_engine_score"))
             /\ UNCHANGED db
    /\ UNCHANGED single

TwoUpdateComposite(r) ==
    /\ runs[r].pc = "composite"
    /\ \E ok \in BOOLEAN :
        LET c == _calculate_composite_score(runs[r].engine_scores)
        IN  IF ok
            THEN /\ db' = [db EXCEPT !.analyses = UpdateCompositeWhereId(@, runs[r].id, c)]
                 /\ runs' = [runs EXCEPT
                               ![r].composite_score = c,
                               ![r].pc = "identify_gaps",
                               ![r].own.analyses = UpdateCompositeWhereId(@, runs[r].id, c)]
            ELSE /\ runs' = [RunFail(r, StorageError("update_composite_score"))
                                EXCEPT ![r].composite_score = c]
                 /\ UNCHANGED db
    /\ UNCHANGED single

TwoIdentifyGaps(r) ==
    /\ runs[r].pc = "identify_gaps"
    /\ \/ /\ runs[r].engine_scores # <<>>
          /\ runs' = RunFail(r, <<"E_identify_gaps">>)
       \/ runs' = [runs EXCEPT
                     ![r].all_gaps = RunGaps(runs[r]),
                     ![r].pc = IF runs[r].sim THEN "run_simulation" ELSE "save_gaps"]
    /\ UNCHANGED <<db, single>>

\* the simulation block; every failure inside it is swallowed
TwoRunSimulation(r) ==
    /\ runs[r].pc = "run_simulation"
    /\ \E ok \in BOOLEAN :
        runs' = [runs EXCEPT ![r].pc = IF ok THEN "save_simulation" ELSE "save_gaps"]
    /\ UNCHANGED <<db, single>>

TwoSaveSimulation(r) ==
    /\ TwoInsert(r, "save_simulation", "simulation_results",
                 <<[analysis_id |-> runs[r].id, result |-> SimResult(FALSE, <<>>)]>>,
                 "extract_simulation_gaps", "save_gaps")
    /\ UNCHANGED single

TwoExtractSimulationGaps(r) ==
    /\ runs[r].pc = "extract_simulation_gaps"
    /\ runs' = [runs EXCEPT ![r].all_gaps = @ \o RunSimulationGaps(runs[r]),
                            ![r].pc = "save_gaps"]
    /\ UNCHANGED <<db, single>>

TwoSaveGaps(r) ==
    /\ TwoInsert(r, "save_gaps", "gaps", runs[r].all_gaps, "set_completed", "handler")
    /\ UNCHANGED single

TwoSetCompleted(r) ==
    /\ TwoUpdateStatus(r, "set_completed", "completed", Null, "returned")
    /\ UNCHANGED single

TwoHandler(r) ==
    /\ TwoUpdateStatus(r, "handler", "failed", runs[r].exc, "raised")
    /\ UNCHANGED single

NextTwoRuns ==
    \E r \in Runs :
        \/ TwoCreate(r)
        \/ TwoSetProcessing(r)
        \/ TwoCrawl(r)
        \/ TwoSaveCrawled(r)
        \/ TwoAnalyze(r)
        \/ TwoSaveEngineScore(r)
        \/ TwoUpdateComposite(r)
        \/ TwoIdentifyGaps(r)
        \/ TwoRunSimulation(r)
        \/ TwoSaveSimulation(r)
        \/ TwoExtractSimulationGaps(r)
        \/ TwoSaveGaps(r)
        \/ TwoSetCompleted(r)
        \/ TwoHandler(r)

SpecTwoRuns == InitTwoRuns /\ [][NextTwoRuns]_vars

Created(r) == runs[r].id # ""

\* C13: two analyze_url runs interleaved at their await points do not
\* interfere: each allocates its own new id, also for the same URL; every
\* row a run writes carries that run's id; and what the database holds for
\* a run's id (status, composite score, scores, gaps) is at every moment
\* exactly what that run alone has written.
C13_RunsDoNotInterfere ==
    /\ (Created("r1") /\ Created("r2")) => runs["r1"].id # runs["r2"].id
    /\ Len(db.analyses) = Cardinality({r \in Runs : Created(r)})
    /\ \A r \in Runs : Created(r) => RowsOf(db, runs[r].id) = runs[r].own
    /\ \A t \in {"crawled_pages", "engine_scores", "simulation_results", "gaps"} :
          \A i \in DOMAIN db[t] :
              \E r \in Runs : Created(r) /\ db[t][i].analysis_id = runs[r].id

C13_Witness ==
    /\ runs["r1"].url = runs["r2"].url
    /\ runs["r1"].pc = "returned"
    /\ runs["r2"].pc = "raised"
    /\ Len(db.gaps) >= 2
    /\ db.gaps[1].analysis_id = "a2"
    /\ db.gaps[Len(db.gaps)].analysis_id = "a1"
    /\ Len(db.engine_scores) > 3
    /\ db.engine_scores[1].analysis_id # db.engine_scores[2].analysis_id
    /\ db.analyses[1].status = "completed"
    /\ db.analyses[2].status = "failed"

\* points of the two H1 awards in a heading-hierarchy score, without the
\* 5 points for no skipped level
H1Points == fn_out.details[3] - Points(~fn_in.skipped_levels, 500)

\* C21 as stated: the first 10 points are awarded only for exactly one H1
\* and the second 10 only without multiple H1s, so zero H1s earns 10, one
\* H1 earns 20 and several H1s earn nothing.
C21_Original ==
    (fn_done /\ fn_in.engine = "ARCE") =>
        H1Points = Points(fn_in.h1_count = 1, 1000) + Points(fn_in.h1_count <= 1, 1000)

\* C21 amended: the first 10 points are awarded for at least one H1 and
\* the second 10 for not having several; both are earned together exactly
\* when the H1 count is 1, and a page with zero or with several H1s earns
\* one of the two awards (10 points), plus 5 when no level is skipped.
C21_H1Awards ==
    (fn_done /\ fn_in.engine = "ARCE") =>
        /\ H1Points = 2000 <=> fn_in.h1_count = 1
        /\ fn_in.h1_count # 1 => H1Points = 1000

C21_Witness ==
    /\ fn_done
    /\ fn_in.engine = "ARCE"
    /\ fn_in.h1_count = 2
    /\ ~fn_in.skipped_levels
    /\ fn_out.details[3] = 1500

HasGap(gap_type, severity) ==
    \E i \in DOMAIN fn_out.gaps :
        /\ fn_out.gaps[i].gap_type = gap_type
        /\ fn_out.gaps[i].severity = severity

\* the 10 points of the trust sub-score given for an https URL
HttpsCredit ==
    fn_out.details[2] - Points(fn_in.has_reviews, 1000)
        - Points(fn_in.return_policy, 1000)

\* C22: for every TRE result the gaps agree with the details of the score
\* for the same content: critical no_ssl iff the HTTPS credit was not
\* awarded, critical no_buy_button iff buy_button_found is false, high
\* missing_offer_schema iff has_offer is false, medium no_reviews iff
\* has_reviews is false.
C22_TREGapsAgreeWithDetails ==
    (fn_out.identified /\ fn_in.engine = "TRE") =>
        /\ HasGap("no_ssl", "critical") <=> HttpsCredit = 0
        /\ HttpsCredit = 0 <=> ~fn_out.facts.has_ssl
        /\ HasGap("no_buy_button", "critical") <=> ~fn_out.facts.buy_button_found
        /\ HasGap("missing_offer_schema", "high") <=> ~fn_out.facts.has_offer
        /\ HasGap("no_reviews", "medium") <=> ~fn_out.facts.has_reviews

C22_Witness ==
    /\ fn_out.identified
    /\ fn_in.engine = "TRE"
    /\ ~fn_in.https
    /\ fn_in.buy_button
    /\ fn_in.offers = "unpriced"
    /\ fn_in.has_reviews
    /\ HasGap("no_ssl", "critical")
    /\ ~HasGap("missing_offer_schema", "high")
    /\ Len(fn_out.gaps) = 2

\* the description part of ADE's attribute-richness sub-score
DescriptionRichness ==
    fn_out.details[2] - Points(fn_in.has_brand, 750) - Points(fn_in.has_sku, 750)

\* C30: whenever ADE emits a short_description gap, the description part
\* of its attribute score for the same content is below 5 of 15 points;
\* gap and score rest on the same description text, also when the Product
\* schema has no description and the page has a meta description.
C30_ShortDescriptionAgreesWithRichness ==
    (fn_out.identified /\ fn_in.engine = "ADE"
        /\ HasGap("short_description", "medium")) =>
            DescriptionRichness < 500

\* C23: when the simulation backend is unreachable the simulation step is
\* skipped as a failure: the run's gap list and the stored gap set hold no
\* simulation-derived gap, in particular no critical not_cited_by_ai gap.
C23_UnreachableBackendSkipped ==
    "backend_unreachable" \in failures =>
        /\ \A i \in DOMAIN all_gaps : ~IsSimGap(all_gaps[i])
        /\ \A i \in DOMAIN gaps_tbl : ~IsSimGap(gaps_tbl[i])

\* C24: identify_gaps is called only for engines whose analyze succeeded in
\* the run, at most once each and, once the gap loop is over, exactly once
\* each; every stored gap whose source is an engine has a stored score of
\* that engine for the same analysis.
C24_GapsOnlyForScoredEngines ==
    /\ \A i \in DOMAIN gap_calls : outcome[gap_calls[i]].state = "ok"
    /\ \A i, j \in DOMAIN gap_calls : i # j => gap_calls[i] # gap_calls[j]
    /\ (\E i \in DOMAIN stages : stages[i] \in {"run_simulation", "save_gaps"}) =>
          {gap_calls[i] : i \in DOMAIN gap_calls} = ScoredEngines
    /\ \A i \in DOMAIN gaps_tbl :
          gaps_tbl[i].engine_source \in EngineNames =>
              \E k \in DOMAIN engine_scores_tbl :
                  /\ engine_scores_tbl[k].engine_name = gaps_tbl[i].engine_source
                  /\ engine_scores_tbl[k].analysis_id = gaps_tbl[i].analysis_id

C24_Witness ==
    /\ pc = "returned"
    /\ outcome["ADE"].state = "raised"
    /\ outcome["ARCE"].state = "ok"
    /\ outcome["TRE"].state = "ok"
    /\ gap_calls = <<"ARCE", "TRE">>
    /\ \E i \in DOMAIN gaps_tbl : gaps_tbl[i].engine_source = "TRE"

\* C25: the status is written to completed only after the engine scores,
\* the composite score and the full gap set of the run are stored; the
\* status is written to processing before the first fetch attempt; no
\* fetch and no score or gap write happens while the status is pending.
C25_WriteOrder ==
    /\ analysis.status = "completed" =>
          /\ engine_scores_tbl = engine_scores
          /\ analysis.composite_score = composite_score
          /\ composite_score # NullScore
          /\ gaps_tbl = all_gaps
    /\ analysis.status \in {"absent", "pending"} =>
          /\ attempts.primary = 0 /\ attempts.fallback = 0
          /\ crawled_pages = <<>>
          /\ engine_scores_tbl = <<>>
          /\ gaps_tbl = <<>>
    /\ attempts.primary > 0 => "w_processing" \notin failures

C25_Witness ==
    /\ pc = "returned"
    /\ analysis.status = "completed"
    /\ attempts.fallback = 1
    /\ Len(engine_scores_tbl) = 3
    /\ "sim_call" \in failures
    /\ gaps_tbl # <<>>

\* C27: whenever the analysis is completed, its stored composite score is
\* the weighted mean (rounded to two decimals, 0.0 for zero total weight)
\* of exactly the stored engine scores, there is at most one stored score
\* per engine name, and each stored score carries the weight configured
\* for its engine.
C27_CompositeMatchesStoredScores ==
    analysis.status = "completed" =>
        LET W == TotalWeight(engine_scores_tbl)
            N == 100 * WeightedSum(engine_scores_tbl)
            d == analysis.composite_score * W - N
        IN  /\ W = 0 => analysis.composite_score = 0
            /\ W > 0 => (2 * d <= W /\ -2 * d <= W)
            /\ \A i, j \in DOMAIN engine_scores_tbl :
                  i # j => engine_scores_tbl[i].engine_name # engine_scores_tbl[j].engine_name
            /\ \A i \in DOMAIN engine_scores_tbl :
                  engine_scores_tbl[i].weight =
                      CASE engine_scores_tbl[i].engine_name = "ADE" -> weight_ade
                        [] engine_scores_tbl[i].engine_name = "ARCE" -> weight_arce
                        [] engine_scores_tbl[i].engine_name = "TRE" -> weight_tre

C27_Witness ==
    /\ analysis.status = "completed"
    /\ Len(engine_scores_tbl) = 2
    /\ engine_scores_tbl[1].engine_name = "ADE"
    /\ engine_scores_tbl[1].score = 100
    /\ engine_scores_tbl[2].engine_name = "TRE"
    /\ engine_scores_tbl[2].score = 40
    /\ analysis.composite_score = 7600

C29_GapFailureFailsRun ==
    ("identify_gaps" \in failures /\ pc \in {"returned", "raised"}) =>
        /\ pc = "raised"
        /\ analysis.status = "failed"
        /\ gaps_tbl = <<>>
        /\ engine_scores_tbl = engine_scores
        /\ engine_scores_tbl # <<>>
        /\ analysis.composite_score = composite_score
        /\ composite_score # NullScore

\* ------------------------- ReportGenerator._prioritize_recommendations
\* sorted_gaps[:10]
TopN == 10

\* k gaps of one severity, with rowids from + 1 .. from + k
GapBlock(severity, k, from) ==
    [i \in 1..k |-> [rowid |-> from + i, severity |-> severity]]

\* a list Repository.get_gaps can return: ascending severity text, gaps of
\* equal text in ascending rowid order, or in descending order when
\* descending is set
GapList(nc, nh, nl, nm, descending) ==
    LET l == GapBlock("critical", nc, 0)
             \o GapBlock("high", nh, nc)
             \o GapBlock("low", nl, nc + nh)
             \o GapBlock("medium", nm, nc + nh + nl)
    IN  IF descending
        THEN [i \in DOMAIN l |-> [l[i] EXCEPT !.rowid = Len(l) + 1 - l[i].rowid]]
        ELSE l

GapLists ==
    {GapList(t[1], t[2], t[3], t[4], t[5]) :
        t \in {u \in (0..MaxReportGaps) \X (0..MaxReportGaps) \X (0..MaxReportGaps)
                       \X (0..MaxReportGaps) \X BOOLEAN :
                  u[1] + u[2] + u[3] + u[4] <= MaxReportGaps}}

\* the rows of table gaps the list was read from, in rowid order
StoredRowsOf(gaps) ==
    [r \in DOMAIN gaps |->
        LET g == CHOOSE g \in {gaps[i] : i \in DOMAIN gaps} : g.rowid = r
        IN  [analysis_id |-> "a1", severity |-> g.severity]]

\* severity_order.get(g.severity, 99)
severity_order(severity) ==
    CASE severity = "critical" -> 0
      [] severity = "high" -> 1
      [] severity = "medium" -> 2
      [] severity = "low" -> 3
      [] OTHER -> 99

\* one step of the stable sort: g goes behind every gap whose key is not
\* greater
InsertByKey(s, g) ==
    LET k == Cardinality({i \in DOMAIN s :
                 severity_order(s[i].severity) <= severity_order(g.severity)})
    IN  SubSeq(s, 1, k) \o <<g>> \o SubSeq(s, k + 1, Len(s))

RECURSIVE sorted(_)
\* sorted(gaps, key=...): a new list, stable
sorted(gaps) ==
    IF gaps = <<>> THEN <<>>
    ELSE InsertByKey(sorted(SubSeq(gaps, 1, Len(gaps) - 1)), gaps[Len(gaps)])

Recommendation(n, gap) ==
    [priority |-> n,
     severity |-> gap.severity,
     issue |-> gap.rowid,
     impact |-> IF gap.severity \in {"critical", "high"} THEN "High" ELSE "Medium"]

PrioritizeSortInPlace(gaps) ==
    LET sorted_gaps == sorted(gaps)
        top == SubSeq(sorted_gaps, 1, Min(TopN, Len(sorted_gaps)))
    IN  [gaps |-> sorted_gaps,
         recommendations |-> [n \in DOMAIN top |-> Recommendation(n, top[n])]]

\* the argument list after the call, and the list returned
_prioritize_recommendations(gaps) ==
    LET sorted_gaps == sorted(gaps)
        top == SubSeq(sorted_gaps, 1, Min(TopN, Len(sorted_gaps)))
    IN  [gaps |-> gaps,
         recommendations |-> [n \in DOMAIN top |-> Recommendation(n, top[n])]]

\* fn_in.gaps is the list object passed, fn_in.given its content at the call
InitPrioritize ==
    /\ PipelineIdle
    /\ \E l \in GapLists :
          /\ gaps_tbl = StoredRowsOf(l)
          /\ fn_in = [gaps |-> l, given |-> l]
    /\ fn_out = <<>>
    /\ fn_done = FALSE
    /\ runs = <<>>
    /\ db = <<>>

Prioritize ==
    /\ ~fn_done
    /\ LET r == _prioritize_recommendations(fn_in.gaps)
       IN  /\ fn_in' = [fn_in EXCEPT !.gaps = r.gaps]
           /\ fn_out' = r.recommendations
    /\ fn_done' = TRUE
    /\ UNCHANGED <<pipeline, runs, db>>

NextPrioritize == Prioritize

SpecPrioritize == InitPrioritize /\ [][NextPrioritize]_vars

\* position i of list l comes before position j in severity order
ComesBefore(l, i, j) ==
    \/ SeverityRank(l[i].severity) < SeverityRank(l[j].severity)
    \/ SeverityRank(l[i].severity) = SeverityRank(l[j].severity) /\ i < j

\* C26: the recommendation view holds exactly the first min(10, n) gaps of
\* the gaps in severity order, numbered 1..min(10, n) in that order, and
\* building it leaves the stored gaps and the list passed in as they were.
C26_TopTenView ==
    fn_done =>
        LET given == fn_in.given
            n == Len(given)
            m == IF n < 10 THEN n ELSE 10
        IN  /\ Len(fn_out) = m
            /\ \A k \in 1..m :
                  /\ fn_out[k].priority = k
                  /\ \E i \in 1..n :
                        /\ fn_out[k].issue = given[i].rowid
                        /\ fn_out[k].severity = given[i].severity
                        /\ Cardinality({j \in 1..n : ComesBefore(given, j, i)}) = k - 1
            /\ fn_in.gaps = given
            /\ gaps_tbl = StoredRowsOf(given)

C26_Witness ==
    /\ fn_done
    /\ Len(fn_in.given) = 11
    /\ fn_in.given[10].severity = "low"
    /\ fn_in.given[11].severity = "medium"
    /\ Len(fn_out) = 10
    /\ fn_out[1].severity = "critical"
    /\ fn_out[10].severity = "medium"

====
